---- MODULE Spec2Model ----
(***************************************************************************)
(* A model of build.py, the release-packaging script of rustdesk:          *)
(* feature resolution (parse_rc_features), checksum-verified download and  *)
(* filtered extraction (download_extract_features, external_resources),    *)
(* and the packaging pipeline of main() with every external command it     *)
(* runs through system2 / os.system.                                       *)
(*                                                                         *)
(* Python values are modelled as follows.                                  *)
(*  - A str that the code only compares is a TLA+ string. A str on which   *)
(*    the code runs a regular expression is a sequence of one-character    *)
(*    strings. A str built by an f-string is the sequence of its segments  *)
(*    with the empty segments dropped (fstr).                              *)
(*  - The value of args.feature is a tagged record: [t |-> "str", ...] or  *)
(*    [t |-> "list", ...], because the code branches on isinstance.        *)
(*  - A dict is the sequence of its keys in insertion order.               *)
(***************************************************************************)
EXTENDS Integers, Sequences, FiniteSets, TLC

VARIABLES
    host,       \* the prefix of platform.platform() that build.py tests
    feature,    \* the value of args.feature handed to parse_rc_features
    resolved,   \* what parse_rc_features returned (or NotCalled)
    features,   \* the dict handed to download_extract_features, as items()
    net,        \* what the two URLs of a feature serve
    fetched,    \* what download_extract_features did (or NotFetched)
    args,       \* the parsed command line (argparse namespace)
    version,    \* what get_version() read from Cargo.toml
    prog,       \* the operations main() has still to run, in order
    trace,      \* the processes and library calls run so far
    status,     \* "running", or how the process ended
    present,    \* the paths and environment names known to exist
    absent,     \* the paths and environment names known not to exist
    res_files   \* the files under the resources staging directory

fetch_vars == <<feature, resolved, features, net, fetched>>
run_vars == <<args, version, prog, trace, status, present, absent, res_files>>
vars == <<host, fetch_vars, run_vars>>

(***************************************************************************)
(* Bounds of the model.                                                    *)
(***************************************************************************)
MaxReq == 2     \* longest requested feature list
MaxLines == 1   \* most lines of a checksum manifest
MaxPats == 2    \* most patterns of an include or exclude list

Hosts == {"Windows", "Darwin", "macOS", "Linux"}

\* The names a request may hold: the catalog name, a name differing in
\* case only, an unknown name, and the sentinel in three letter cases.
FeatureNames == {"PrivacyMode", "privacymode", "Foo", "all", "ALL", "All"}

SeqsUpTo(S, n) == UNION {[1..k -> S] : k \in 0..n}

\* args.feature: the argparse default '', a list (nargs='+'), or a str.
StrReq(s) == [t |-> "str", s |-> s, l |-> <<>>]
ListReq(l) == [t |-> "list", s |-> "", l |-> l]
Requests ==
    {StrReq(s) : s \in {"", "all", "ALL", "PrivacyMode"}}
        \cup {ListReq(l) : l \in SeqsUpTo(FeatureNames, MaxReq)}

(***************************************************************************)
(* Module-level globals of build.py (lines 14-16).                         *)
(***************************************************************************)
windows == host = "Windows"
osx == host \in {"Darwin", "macOS"}

\* str.upper() on the names of the model.
upper(s) ==
    CASE s \in {"all", "ALL", "All"} -> "ALL"
      [] s \in {"PrivacyMode", "privacymode"} -> "PRIVACYMODE"
      [] s = "Foo" -> "FOO"
      [] OTHER -> s

\* The characters of 'WindowInjection.dll', a regular expression given to
\* re.compile and also the name of an archive member.
WindowInjection_dll ==
    <<"W", "i", "n", "d", "o", "w", "I", "n", "j", "e", "c", "t", "i", "o",
      "n", ".", "d", "l", "l">>

\* The segments of a URL between '/' characters (str.split('/')).
PrivacyMode_zip_url ==
    <<"https:", "", "github.com", "fufesou", "RustDeskTempTopMostWindow",
      "releases", "download", "v0.3", "TempTopMostWindow_x64.zip">>
PrivacyMode_checksum_url ==
    <<"https:", "", "github.com", "fufesou", "RustDeskTempTopMostWindow",
      "releases", "download", "v0.3", "checksum_md5">>

\* The static feature catalog of parse_rc_features.
available_features ==
    [PrivacyMode |->
        [platform |-> {"windows"},
         zip_url |-> PrivacyMode_zip_url,
         checksum_url |-> PrivacyMode_checksum_url,
         include |-> <<WindowInjection_dll>>]]

platform_check_any(platforms) == TRUE

platform_check(platforms) ==
    IF windows THEN "windows" \in platforms
    ELSE IF osx THEN "osx" \in platforms
    ELSE "linux" \in platforms

\* The iteration order of available_features.items().
catalog_order == <<"PrivacyMode">>

get_all_features_unfiltered == catalog_order

get_all_features ==
    SelectSeq(catalog_order,
              LAMBDA feat : platform_check(available_features[feat].platform))

\* apply_features[feat] = ... on a dict kept as its keys in insertion order.
dict_set(keys, k) ==
    IF \E i \in 1..Len(keys) : keys[i] = k THEN keys ELSE Append(keys, k)

\* What parse_rc_features returns or raises.
\*   t = "list":  the Python list get_all_features() returned (elts)
\*   t = "dict":  apply_features, as its keys (keys); its values are the
\*                catalog records available_features[k]
\*   t = "raise": Exception('Unsupported features param ...')
\* printed holds the names of the 'Unrecognized feature' lines printed.
ReturnList(elts, printed) ==
    [t |-> "list", elts |-> elts, keys |-> <<>>, printed |-> printed]
ReturnDict(keys, printed) ==
    [t |-> "dict", elts |-> <<>>, keys |-> keys, printed |-> printed]
Raise(printed) ==
    [t |-> "raise", elts |-> <<>>, keys |-> <<>>, printed |-> printed]

RECURSIVE for_feat_in_feature(_, _, _, _)
for_feat_in_feature(l, i, apply_features, printed) ==
    IF i > Len(l) THEN ReturnDict(apply_features, printed)
    ELSE LET feat == l[i] IN
        IF upper(feat) = "ALL" THEN ReturnList(get_all_features, printed)
        ELSE IF feat \in DOMAIN available_features
        THEN IF platform_check(available_features[feat].platform)
             THEN for_feat_in_feature(l, i + 1,
                                      dict_set(apply_features, feat), printed)
             ELSE for_feat_in_feature(l, i + 1, apply_features, printed)
        ELSE for_feat_in_feature(l, i + 1, apply_features,
                                 Append(printed, feat))

\* The same call with an unrecognized name treated as fatal.
parse_rc_features_strict(f) ==
    IF f.t = "list" /\ \E i \in 1..Len(f.l) :
            f.l[i] \notin DOMAIN available_features /\ upper(f.l[i]) # "ALL"
    THEN Raise(<<>>)
    ELSE IF f.t = "str" /\ upper(f.s) = "ALL"
    THEN ReturnList(get_all_features, <<>>)
    ELSE IF f.t = "list" \/ f.s = ""
    THEN for_feat_in_feature(f.l, 1, <<>>, <<>>)
    ELSE Raise(<<>>)

parse_rc_features(f) ==
    LET feat == IF (f.t = "str" /\ f.s = "") \/ (f.t = "list" /\ f.l = <<>>)
                THEN ListReq(<<>>) ELSE f
    IN  IF feat.t = "str" /\ upper(feat.s) = "ALL"
        THEN ReturnList(get_all_features, <<>>)
        ELSE IF feat.t = "list"
        THEN for_feat_in_feature(feat.l, 1, <<>>, <<>>)
        ELSE Raise(<<>>)

NotCalled == [t |-> "none", elts |-> <<>>, keys |-> <<>>, printed |-> <<>>]

(***************************************************************************)
(* download_extract_features (lines 215-269).                              *)
(***************************************************************************)
\* re.compile(p).match(f): the pattern is matched at the start of f only.
\* A pattern is a sequence of characters, '.' standing for any character.
re_match(p, f) ==
    /\ Len(p) <= Len(f)
    /\ \A i \in 1..Len(p) : p[i] = "." \/ p[i] = f[i]

\* feat_info[key] if key in feat_info and feat_info[key] else []
patterns_of(feat_info, key) ==
    IF key \in DOMAIN feat_info /\ feat_info[key] # <<>>
    THEN feat_info[key] ELSE <<>>

\* The body of 'for f in zip_list': whether f is handed to zip_file.extract.
extract_include_first(f, includes, excludes) ==
    IF \E i \in 1..Len(includes) : re_match(includes[i], f) THEN TRUE
    ELSE IF \E i \in 1..Len(excludes) : re_match(excludes[i], f) THEN FALSE
    ELSE includes = <<>>

extract_member(f, includes, excludes) ==
    LET file_exclude == \E i \in 1..Len(excludes) : re_match(excludes[i], f)
        file_include == IF includes # <<>>
                        THEN \E i \in 1..Len(includes) : re_match(includes[i], f)
                        ELSE TRUE
    IN  IF file_exclude THEN FALSE ELSE file_include

\* The result of the download of some features:
\*   raised     "none", or the exception that ended the call
\*   extracted  the (feature, member) pairs handed to zip_file.extract
\*   retrieved  how many times urlretrieve fetched an archive
Fetched(raised, extracted, retrieved) ==
    [raised |-> raised, extracted |-> extracted, retrieved |-> retrieved]

NotFetched == Fetched("not called", <<>>, 0)

digest_ignored(checksum_md5, md5) == TRUE

\* checksum_md5 != md5 is what raises; this is its negation.
digest_ok(checksum_md5, md5) == checksum_md5 = md5

\* 'for line in ...splitlines()' for one feature. A line is the list of
\* its tokens (line.split()); acc is the result so far.
RECURSIVE for_line(_, _, _, _, _)
for_line(feat, feat_info, remote, j, acc) ==
    IF j > Len(remote.manifest) THEN acc
    ELSE LET line == remote.manifest[j]
             download_filename == feat_info.zip_url[Len(feat_info.zip_url)]
         IN
        IF Len(line) < 2 THEN [acc EXCEPT !.raised = "IndexError"]
        ELSE IF line[2] = download_filename
        THEN IF ~digest_ok(line[1], remote.md5)
             THEN [acc EXCEPT !.raised = "download failed",
                              !.retrieved = @ + 1]
             ELSE LET includes == patterns_of(feat_info, "include")
                      excludes == patterns_of(feat_info, "exclude")
                      out == SelectSeq(remote.namelist,
                                 LAMBDA f : extract_member(f, includes, excludes))
                  IN for_line(feat, feat_info, remote, j + 1,
                        [acc EXCEPT
                            !.extracted = @ \o [i \in 1..Len(out) |->
                                                    <<feat, out[i]>>],
                            !.retrieved = @ + 1])
        ELSE for_line(feat, feat_info, remote, j + 1, acc)

\* 'for (feat, feat_info) in features.items()'; remote is what the
\* feature's checksum_url and zip_url serve.
RECURSIVE for_feat_info(_, _, _, _)
for_feat_info(items, remote, i, acc) ==
    IF i > Len(items) \/ acc.raised # "none" THEN acc
    ELSE for_feat_info(items, remote, i + 1,
            for_line(items[i].feat, items[i].info, remote, 1, acc))

download_extract_features(items, remote) ==
    for_feat_info(items, remote, 1, Fetched("none", <<>>, 0))

\* features.items() of a dict returned by parse_rc_features.
items_of(r) ==
    [i \in 1..Len(r.keys) |->
        [feat |-> r.keys[i], info |-> available_features[r.keys[i]]]]

(***************************************************************************)
(* The inputs of a download.                                               *)
(***************************************************************************)
Digests == {"d1", "d2"}
FileNames == {"TempTopMostWindow_x64.zip", "checksum_md5"}

\* A manifest line as line.split() gives it: '<md5> <filename>', or a
\* line of fewer than two tokens.
ManifestLines ==
    {<<d, fn>> : d \in Digests, fn \in FileNames} \cup {<<>>, <<"d1">>}

Manifests == SeqsUpTo(ManifestLines, MaxLines)

\* Archive members and patterns, over a small alphabet.
Members == <<(<<"l", "x">>), (<<"l", "d">>), (<<"x", "x">>), (<<"x", "l">>)>>
Patterns == {<<"l">>, <<"l", "d">>, <<".", "x">>}
PatternLists == SeqsUpTo(Patterns, MaxPats)

NoNet == [manifest |-> <<>>, md5 |-> "d1", namelist |-> <<>>]

\* A feature record with the given include and exclude lists; a list that
\* is "absent" leaves the key out, as the catalog does with 'exclude'.
Absent == <<"absent">>
feat_info_with(inc, exc) ==
    LET base == [platform |-> {"windows"},
                 zip_url |-> PrivacyMode_zip_url,
                 checksum_url |-> PrivacyMode_checksum_url]
        i == IF inc = Absent THEN base ELSE base @@ [include |-> inc]
    IN  IF exc = Absent THEN i ELSE i @@ [exclude |-> exc]

(***************************************************************************)
(* The pipeline of main(). main() and the functions it calls are given as  *)
(* the sequence of operations they run. An operation is a command line     *)
(* handed to system2 or os.system, a library call, a test of the file      *)
(* system or of the environment (which continues with one of two blocks),  *)
(* a rename, or an exit. A command line is the list of the processes it    *)
(* starts and the shell operator that joins them.                          *)
(*                                                                         *)
(* Every process and call carries a role: "compile" (cargo), "codegen",    *)
(* "ui_build" (flutter build), "prep", "strip", "stage" (building the      *)
(* staging tree), "package" (the packaging tool), "sign", "cleanup",       *)
(* "move" and "finalize" (the move to the final name), and the strategy    *)
(* it belongs to.                                                          *)
(***************************************************************************)
\* An f-string: the concatenation of its segments.
fstr(segs) == SelectSeq(segs, LAMBDA x : x # "")

\* Globals set by main() (lines 551-565) and module level (lines 17-25).
debug == args.debug
build_type == IF debug THEN "debug" ELSE "release"
type_name_never == ""
type_name == IF debug THEN "-debug" ELSE ""
hbb_name == IF windows THEN "rustdesk.exe" ELSE "rustdesk"
exe_path == fstr(<<"target/", build_type, "/", hbb_name>>)
skip_cargo == args.skip_cargo

Proc(role, c) == [role |-> role, c |-> c, mk |-> {}, rm |-> {}]
ProcFx(role, c, mk, rm) == [role |-> role, c |-> c, mk |-> mk, rm |-> rm]

NoOp == [k |-> "", s |-> "main", sh |-> "one", procs |-> <<>>,
         src |-> <<>>, dst |-> <<>>, t |-> "", e |-> ""]

\* system2(cmd) with one process, and with effects on the tracked paths.
Sh(role, c) ==
    <<[NoOp EXCEPT !.k = "system2", !.procs = <<Proc(role, c)>>]>>
ShFx(role, c, mk, rm) ==
    <<[NoOp EXCEPT !.k = "system2", !.procs = <<ProcFx(role, c, mk, rm)>>]>>
\* system2(cmd) where cmd joins processes by '&&', ';', '|' or '|| true'.
ShJoin(sh, procs) ==
    <<[NoOp EXCEPT !.k = "system2", !.sh = sh, !.procs = procs]>>
\* os.system(cmd): the exit status is dropped.
OsSystem(role, c) ==
    <<[NoOp EXCEPT !.k = "os_system", !.procs = <<Proc(role, c)>>]>>
\* A library call, which returns or raises.
Py(role, c) ==
    <<[NoOp EXCEPT !.k = "py", !.procs = <<Proc(role, c)>>]>>
PyFx(role, c, mk, rm) ==
    <<[NoOp EXCEPT !.k = "py", !.procs = <<ProcFx(role, c, mk, rm)>>]>>
Printed(c) ==
    <<[NoOp EXCEPT !.k = "print", !.procs = <<Proc("print", c)>>]>>
OutputLocation(name) ==
    <<[NoOp EXCEPT !.k = "print", !.dst = name,
                   !.procs = <<Proc("print", "output location")>>]>>
\* os.path.exists / os.path.isfile / a test of os.environ.
Probe(path, t, e) ==
    <<[NoOp EXCEPT !.k = "probe", !.src = path, !.t = t, !.e = e,
                   !.procs = <<Proc("probe", "os.path.exists")>>]>>
Rename(role, c, src, dst) ==
    <<[NoOp EXCEPT !.k = "rename", !.src = src, !.dst = dst,
                   !.procs = <<Proc(role, c)>>]>>
Exit == <<[NoOp EXCEPT !.k = "exit", !.procs = <<Proc("exit", "sys.exit(-1)")>>]>>
Call(k, t) == <<[NoOp EXCEPT !.k = k, !.t = t]>>

In(s, ops) == [i \in 1..Len(ops) |-> [ops[i] EXCEPT !.s = s]]

\* Tracked paths, relative to the directory build.py starts in.
usr_bin_pacman == <<"/usr/bin/pacman">>
usr_bin_yum == <<"/usr/bin/yum">>
usr_bin_zypper == <<"/usr/bin/zypper">>
env_CPATH == <<"os.environ", "CPATH">>
env_P == <<"os.environ", "P">>
res_dir == <<"resources">>
control_file == <<"res/DEBIAN/control">>

(***************************************************************************)
(* generate_control_file, md5_file and the code generation that four       *)
(* build_flutter_* functions start with.                                   *)
(***************************************************************************)
generate_control_file ==
    ShFx("stage", "/bin/rm -rf control_file_path", {}, {control_file})
    \o PyFx("stage", "open(control_file_path, 'w').write(content)",
            {control_file}, {})

md5_file(fn) ==
    Py("md5", fn)
    \o Sh("stage", "echo md5 fn >> tmpdeb/DEBIAN/md5sums")

set_flutter_bridge_cpath ==
    <<[NoOp EXCEPT !.k = "check_output", !.sh = "pipe",
          !.procs = <<Proc("prep", "clang -v 2>&1"),
                      Proc("prep", "grep 'Selected GCC installation'"),
                      Proc("prep", "rev"),
                      Proc("prep", "cut -d ' ' -f1"),
                      ProcFx("prep", "rev", {env_CPATH}, {})>>]>>

\* 'if not skip_cargo:' at the head of build_flutter_deb, _arch_manjaro,
\* _rhel and _suse.
cargo_build_lib ==
    IF ~skip_cargo
    THEN (IF args.codegen
          THEN Probe(env_CPATH, "pass", "set_flutter_bridge_cpath")
               \o Sh("codegen", "flutter_rust_bridge_codegen")
          ELSE <<>>)
         \o Sh("compile", "cargo build --features {features} --lib")
    ELSE <<>>

(***************************************************************************)
(* build_flutter_deb (lines 339-393), run with flutter/ as the directory.  *)
(***************************************************************************)
flutter_tmpdeb == <<"flutter/tmpdeb">>
flutter_rustdesk_deb == <<"flutter/rustdesk.deb">>
deb_name == fstr(<<"rustdesk-", version, type_name, ".deb">>)

build_flutter_deb == In("deb",
    cargo_build_lib
    \o Py("chdir", "os.chdir('flutter')")
    \o Sh("ui_build", "flutter build linux")
    \o ShFx("stage", "/bin/rm -rf tmpdeb/", {}, {flutter_tmpdeb})
    \o ShFx("stage", "mkdir -p tmpdeb/usr/bin/", {flutter_tmpdeb}, {})
    \o ShFx("stage", "mkdir -p tmpdeb/usr/lib/rustdesk", {flutter_tmpdeb}, {})
    \o ShFx("stage", "mkdir -p tmpdeb/etc/rustdesk/", {flutter_tmpdeb}, {})
    \o ShFx("stage", "mkdir -p tmpdeb/etc/pam.d/", {flutter_tmpdeb}, {})
    \o ShFx("stage", "mkdir -p tmpdeb/usr/share/rustdesk/files/systemd/",
            {flutter_tmpdeb}, {})
    \o ShFx("stage", "mkdir -p tmpdeb/usr/share/icons/hicolor/256x256/apps/",
            {flutter_tmpdeb}, {})
    \o ShFx("stage", "mkdir -p tmpdeb/usr/share/icons/hicolor/scalable/apps/",
            {flutter_tmpdeb}, {})
    \o ShFx("stage", "mkdir -p tmpdeb/usr/share/applications/",
            {flutter_tmpdeb}, {})
    \o ShFx("stage", "mkdir -p tmpdeb/usr/share/polkit-1/actions",
            {flutter_tmpdeb}, {})
    \o ShJoin("or_true", <<Proc("stage", "rm -f tmpdeb/usr/bin/rustdesk")>>)
    \o Sh("stage", "cp -r {flutter_build_dir}/* tmpdeb/usr/lib/rustdesk/")
    \o Sh("stage", "cp ../res/rustdesk.service tmpdeb/usr/share/rustdesk/files/systemd/")
    \o Sh("stage", "cp ../res/128x128@2x.png tmpdeb/usr/share/icons/hicolor/256x256/apps/rustdesk.png")
    \o Sh("stage", "cp ../res/scalable.svg tmpdeb/usr/share/icons/hicolor/scalable/apps/rustdesk.svg")
    \o Sh("stage", "cp ../res/rustdesk.desktop tmpdeb/usr/share/applications/rustdesk.desktop")
    \o Sh("stage", "cp ../res/rustdesk-link.desktop tmpdeb/usr/share/applications/rustdesk-link.desktop")
    \o Sh("stage", "cp ../res/com.rustdesk.RustDesk.policy tmpdeb/usr/share/polkit-1/actions/")
    \o Sh("stage", "cp ../res/startwm.sh tmpdeb/etc/rustdesk/")
    \o Sh("stage", "cp ../res/xorg.conf tmpdeb/etc/rustdesk/")
    \o Sh("stage", "cp ../res/pam.d/rustdesk.debian tmpdeb/etc/pam.d/rustdesk")
    \o ShJoin("and",
         <<Proc("stage", "echo #!/bin/sh >> tmpdeb/usr/share/rustdesk/files/polkit"),
           Proc("stage", "chmod a+x tmpdeb/usr/share/rustdesk/files/polkit")>>)
    \o ShFx("stage", "mkdir -p tmpdeb/DEBIAN", {flutter_tmpdeb}, {})
    \o generate_control_file
    \o Sh("stage", "cp -a ../res/DEBIAN/* tmpdeb/DEBIAN/")
    \o md5_file("usr/share/rustdesk/files/systemd/rustdesk.service")
    \o ShFx("package", "dpkg-deb -b tmpdeb rustdesk.deb", {flutter_rustdesk_deb}, {})
    \o ShFx("cleanup", "/bin/rm -rf tmpdeb/", {}, {flutter_tmpdeb})
    \o ShFx("cleanup", "/bin/rm -rf ../res/DEBIAN/control", {}, {control_file})
    \o Rename("finalize", "os.rename", flutter_rustdesk_deb, deb_name)
    \o Py("chdir", "os.chdir('..')")
    \o OutputLocation(deb_name))

(***************************************************************************)
(* build_deb_from_folder (lines 396-434), run with flutter/ as directory.  *)
(***************************************************************************)
\* The packaging of a prebuilt folder left to the function that compiles.
build_deb_compiling == build_flutter_deb

build_deb_from_folder == In("deb_from_folder",
    Py("chdir", "os.chdir('flutter')")
    \o ShFx("stage", "/bin/rm -rf tmpdeb/", {}, {flutter_tmpdeb})
    \o ShFx("stage", "mkdir -p tmpdeb/usr/bin/", {flutter_tmpdeb}, {})
    \o ShFx("stage", "mkdir -p tmpdeb/usr/lib/rustdesk", {flutter_tmpdeb}, {})
    \o ShFx("stage", "mkdir -p tmpdeb/usr/share/rustdesk/files/systemd/",
            {flutter_tmpdeb}, {})
    \o ShFx("stage", "mkdir -p tmpdeb/usr/share/icons/hicolor/256x256/apps/",
            {flutter_tmpdeb}, {})
    \o ShFx("stage", "mkdir -p tmpdeb/usr/share/icons/hicolor/scalable/apps/",
            {flutter_tmpdeb}, {})
    \o ShFx("stage", "mkdir -p tmpdeb/usr/share/applications/",
            {flutter_tmpdeb}, {})
    \o ShFx("stage", "mkdir -p tmpdeb/usr/share/polkit-1/actions",
            {flutter_tmpdeb}, {})
    \o ShJoin("or_true", <<Proc("stage", "rm tmpdeb/usr/bin/rustdesk")>>)
    \o Sh("stage", "cp -r ../{binary_folder}/* tmpdeb/usr/lib/rustdesk/")
    \o Sh("stage", "cp ../res/rustdesk.service tmpdeb/usr/share/rustdesk/files/systemd/")
    \o Sh("stage", "cp ../res/128x128@2x.png tmpdeb/usr/share/icons/hicolor/256x256/apps/rustdesk.png")
    \o Sh("stage", "cp ../res/scalable.svg tmpdeb/usr/share/icons/hicolor/scalable/apps/rustdesk.svg")
    \o Sh("stage", "cp ../res/rustdesk.desktop tmpdeb/usr/share/applications/rustdesk.desktop")
    \o Sh("stage", "cp ../res/rustdesk-link.desktop tmpdeb/usr/share/applications/rustdesk-link.desktop")
    \o Sh("stage", "cp ../res/com.rustdesk.RustDesk.policy tmpdeb/usr/share/polkit-1/actions/")
    \o ShJoin("and",
         <<Proc("stage", "echo #!/bin/sh >> tmpdeb/usr/share/rustdesk/files/polkit"),
           Proc("stage", "chmod a+x tmpdeb/usr/share/rustdesk/files/polkit")>>)
    \o ShFx("stage", "mkdir -p tmpdeb/DEBIAN", {flutter_tmpdeb}, {})
    \o generate_control_file
    \o Sh("stage", "cp -a ../res/DEBIAN/* tmpdeb/DEBIAN/")
    \o md5_file("usr/share/rustdesk/files/systemd/rustdesk.service")
    \o ShFx("package", "dpkg-deb -b tmpdeb rustdesk.deb", {flutter_rustdesk_deb}, {})
    \o ShFx("cleanup", "/bin/rm -rf tmpdeb/", {}, {flutter_tmpdeb})
    \o ShFx("cleanup", "/bin/rm -rf ../res/DEBIAN/control", {}, {control_file})
    \o Rename("finalize", "os.rename", flutter_rustdesk_deb, deb_name)
    \o Py("chdir", "os.chdir('..')")
    \o OutputLocation(deb_name))

(***************************************************************************)
(* build_flutter_dmg (lines 437-453).                                      *)
(***************************************************************************)
dmg_name == fstr(<<"rustdesk-", version, type_name, ".dmg">>)

build_flutter_dmg == In("dmg",
    (IF ~skip_cargo
     THEN Sh("compile", "MACOSX_DEPLOYMENT_TARGET=10.14 cargo build --features {features} --lib")
     ELSE <<>>)
    \o Sh("prep", "cp target/{build_type}/liblibrustdesk.dylib target/{build_type}/librustdesk.dylib")
    \o Py("chdir", "os.chdir('flutter')")
    \o Sh("ui_build", "flutter build macos")
    \o ShFx("package", "create-dmg rustdesk.dmg RustDesk.app",
            {<<"flutter/rustdesk.dmg">>}, {})
    \o Rename("finalize", "os.rename", <<"flutter/rustdesk.dmg">>, dmg_name)
    \o Py("chdir", "os.chdir('..')")
    \o OutputLocation(dmg_name))

(***************************************************************************)
(* build_flutter_arch_manjaro (lines 456-466) and the arch branch of       *)
(* main() (lines 624-647).                                                 *)
(***************************************************************************)
arch_name ==
    fstr(<<"rustdesk-", version, type_name, "-manjaro-arch.pkg.tar.zst">>)

build_flutter_arch_manjaro ==
    cargo_build_lib
    \o Py("chdir", "os.chdir('flutter')")
    \o Sh("ui_build", "flutter build linux")
    \o Py("chdir", "os.chdir('../res')")
    \o Sh("package", "HBB=$(pwd)/.. FLUTTER=1 makepkg -f")

main_arch == In("arch",
    Sh("prep", "sed -i 's/pkgver=.*/pkgver={version}/g' res/PKGBUILD")
    \o Sh("prep", "sed -i s/options=.../ res/PKGBUILD")
    \o Sh("prep", "sed -E -i s/flutter.build.linux.x64.(debug|release).bundle/ res/PKGBUILD")
    \o Sh("prep", "sed -E -i s/.target.(debug|release)./ res/PKGBUILD")
    \o (IF args.flutter
        THEN build_flutter_arch_manjaro
             \o Py("chdir", "os.chdir('..')")
             \o ShFx("finalize", "mv -f res/rustdesk-{version}-0-x86_64.pkg.tar.zst",
                     {arch_name}, {})
        ELSE (IF ~skip_cargo
              THEN Sh("compile", "cargo build --features {features}")
              ELSE <<>>)
             \o Sh("prep", "git checkout src/ui/common.tis")
             \o (IF ~debug THEN Sh("strip", "strip target/{build_type}/rustdesk")
                 ELSE <<>>)
             \o ShJoin("and", <<Proc("prep", "ln -sf res/pacman_install"),
                                Proc("prep", "ln -sf res/PKGBUILD")>>)
             \o Sh("package", "HBB=$(pwd) makepkg -f")
             \o ShFx("finalize", "mv -f rustdesk-{version}-0-x86_64.pkg.tar.zst",
                     {arch_name}, {}))
    \o OutputLocation(arch_name))

(***************************************************************************)
(* build_flutter_rhel (lines 469-487), build_flutter_suse (lines 490-508)  *)
(* and the yum and zypper branches of main() (lines 649-679).              *)
(***************************************************************************)
rhel_name == fstr(<<"rustdesk-", version, type_name, "-rhel.rpm">>)
suse_name == fstr(<<"rustdesk-", version, type_name, "-suse.rpm">>)

build_flutter_rhel ==
    cargo_build_lib
    \o Py("chdir", "os.chdir('flutter')")
    \o Sh("ui_build", "flutter build linux")
    \o (IF ~debug THEN Sh("strip", "strip {flutter_build_dir}/lib/librustdesk.so")
        ELSE <<>>)
    \o Py("chdir", "os.chdir('..')")
    \o Sh("prep", "sed -i 's/Version:    .*/Version:    {version}/g' res/rpm-flutter.spec")
    \o Sh("prep", "sed -i s/flutter.build.linux.x64.*.bundle/ res/rpm-flutter.spec")
    \o Sh("package", "HBB=$(pwd) rpmbuild -bb ./res/rpm-flutter.spec")
    \o ShFx("finalize", "mv -f $HOME/rpmbuild/RPMS/x86_64/rustdesk-{version}-0.x86_64.rpm",
            {rhel_name}, {})
    \o OutputLocation(rhel_name)

main_rhel == In("rhel",
    IF args.flutter THEN build_flutter_rhel
    ELSE (IF ~skip_cargo THEN Sh("compile", "cargo build --features {features}")
          ELSE <<>>)
         \o (IF ~debug THEN Sh("strip", "strip target/{build_type}/rustdesk")
             ELSE <<>>)
         \o Sh("prep", "sed -i 's/Version:    .*/Version:    {version}/g' res/rpm.spec")
         \o Sh("package", "HBB=$(pwd) rpmbuild -ba res/rpm.spec")
         \o ShFx("finalize", "mv -f $HOME/rpmbuild/RPMS/x86_64/rustdesk-{version}-0.x86_64.rpm",
                 {rhel_name}, {})
         \o OutputLocation(rhel_name))

build_flutter_suse ==
    cargo_build_lib
    \o Py("chdir", "os.chdir('flutter')")
    \o Sh("ui_build", "flutter build linux")
    \o (IF ~debug THEN Sh("strip", "strip {flutter_build_dir}/lib/librustdesk.so")
        ELSE <<>>)
    \o Py("chdir", "os.chdir('..')")
    \o Sh("prep", "sed -i 's/Version:    .*/Version:    {version}/g' res/rpm-flutter-suse.spec")
    \o Sh("prep", "sed -i s/flutter.build.linux.x64.*.bundle/ res/rpm-flutter-suse.spec")
    \o Sh("package", "HBB=$(pwd) rpmbuild -bb ./res/rpm-flutter-suse.spec")
    \o ShFx("finalize", "mv -f $HOME/rpmbuild/RPMS/x86_64/rustdesk-{version}-0.x86_64.rpm",
            {suse_name}, {})
    \o OutputLocation(suse_name)

main_suse == In("suse",
    IF args.flutter THEN build_flutter_suse
    ELSE (IF ~skip_cargo THEN Sh("compile", "cargo build --features {features}")
          ELSE <<>>)
         \o (IF ~debug THEN Sh("strip", "strip target/{build_type}/rustdesk")
             ELSE <<>>)
         \o Sh("prep", "sed -i 's/Version:    .*/Version:    {version}/g' res/rpm-suse.spec")
         \o Sh("package", "HBB=$(pwd) rpmbuild -ba res/rpm-suse.spec")
         \o ShFx("finalize", "mv -f $HOME/rpmbuild/RPMS/x86_64/rustdesk-{version}-0.x86_64.rpm",
                 {suse_name}, {})
         \o OutputLocation(suse_name))

(***************************************************************************)
(* build_flutter_windows (lines 511-543) and the Windows branch of main()  *)
(* (lines 589-623).                                                        *)
(***************************************************************************)
librustdesk_dll == fstr(<<"target/", build_type, "/librustdesk.dll">>)
portable_packer ==
    fstr(<<"target/", build_type, "/rustdesk-portable-packer.exe">>)
rustdesk_portable_exe == <<"rustdesk_portable.exe">>
install_name == fstr(<<"rustdesk-", version, type_name, "-install.exe">>)
install_name_tested == fstr(<<"rustdesk-", version, "-install.exe">>)
sciter_install_name ==
    fstr(<<"rustdesk-", version, type_name, "-sciter-install.exe">>)
rustdesk_exe == fstr(<<"target/", build_type, "/rustdesk.exe">>)
RustDesk_exe == fstr(<<"target/", build_type, "/RustDesk.exe">>)

build_flutter_windows ==
    (IF ~skip_cargo
     THEN Sh("compile", "cargo build --features {features} --lib")
          \o Probe(librustdesk_dll, "pass", "cargo_build_failed")
     ELSE <<>>)
    \o Py("chdir", "os.chdir('flutter')")
    \o Sh("ui_build", "flutter build windows")
    \o Py("chdir", "os.chdir('..')")
    \o Py("stage", "shutil.copy2(dylib_virtual_display.dll, flutter_build_dir_2)")
    \o (IF args.skip_portable_pack THEN <<>>
        ELSE Py("chdir", "os.chdir('libs/portable')")
             \o Sh("prep", "pip3 install -r requirements.txt")
             \o ShFx("package", "python3 ./generate.py -f ../../{flutter_build_dir_2}",
                     {portable_packer}, {})
             \o Py("chdir", "os.chdir('../..')")
             \o Probe(rustdesk_portable_exe, "replace_531", "rename_534")
             \o OutputLocation(rustdesk_portable_exe)
             \o Probe(install_name_tested, "replace_539", "rename_541")
             \o OutputLocation(install_name))

\* The Windows branch with the build started before the resources are
\* resolved and fetched.
main_windows_compile_first ==
    In("windows", Sh("compile", "cargo build"))
    \o In("resources", Call("external_resources", "external_resources_278"))

main_windows == In("windows",
    Py("chdir", "os.chdir('libs/virtual_display/dylib')")
    \o Sh("compile", "cargo build")
    \o Py("chdir", "os.chdir('../../..')")
    \o (IF args.flutter THEN build_flutter_windows
        ELSE (IF ~skip_cargo
              THEN ShFx("compile", "cargo build --features {features}",
                        {rustdesk_exe}, {})
                   \o PyFx("prep", "os.rename(rustdesk.exe, RustDesk.exe)",
                           {RustDesk_exe}, {})
              ELSE <<>>)
             \o (IF ~debug THEN Probe(env_P, "signtool", "not_signed")
                 ELSE Printed("Not signed"))
             \o PyFx("stage", "os.makedirs(res_dir, exist_ok=True)", {res_dir}, {})
             \o Py("stage", "shutil.copy2(RustDesk.exe, res_dir)")
             \o Py("chdir", "os.chdir('libs/portable')")
             \o Sh("prep", "pip3 install -r requirements.txt")
             \o ShFx("package", "python3 ./generate.py -f ../../{res_dir}",
                     {portable_packer}, {})
             \o Py("chdir", "os.chdir('../..')")
             \o Probe(sciter_install_name, "replace_619", "rename_621")
             \o OutputLocation(sciter_install_name)))

(***************************************************************************)
(* The last branch of main() (lines 680-777): DMG and Debian package.      *)
(***************************************************************************)
tmpdeb == <<"tmpdeb">>
rustdesk_deb == <<"rustdesk.deb">>
rustdesk_dmg == <<"rustdesk.dmg">>
\* build_name = '-debug' if debug else '' (line 698)
build_name == IF debug THEN "-debug" ELSE ""
dmg_build_name == fstr(<<"rustdesk-", version, build_name, ".dmg">>)

main_dmg == In("dmg",
    Sh("strip", "strip target/{build_type}/bundle/osx/RustDesk.app/Contents/MacOS/rustdesk")
    \o Sh("stage", "cp libsciter.dylib target/{build_type}/bundle/osx/RustDesk.app/Contents/MacOS/")
    \o ShFx("stage", "/bin/rm -rf rustdesk.dmg rustdesk-{version}{build_name}.dmg",
            {}, {rustdesk_dmg, dmg_build_name})
    \o (IF ~debug THEN Probe(env_P, "codesign_app", "pass") ELSE <<>>)
    \o ShFx("package", "create-dmg rustdesk.dmg target/{build_type}/bundle/osx/RustDesk.app",
            {rustdesk_dmg}, {})
    \o Rename("finalize", "os.rename", rustdesk_dmg, dmg_build_name)
    \o (IF ~debug THEN Probe(env_P, "codesign_dmg", "not_signed")
        ELSE Printed("Not signed"))
    \o OutputLocation(dmg_build_name))

main_deb == In("deb",
    (IF ~skip_cargo
     THEN ShFx("stage", "mv -f target/{build_type}/bundle/deb/rustdesk_{version}_amd64.deb ./rustdesk.deb",
               {rustdesk_deb}, {})
     ELSE <<>>)
    \o ShFx("stage", "/bin/rm -rf tmpdeb", {}, {tmpdeb})
    \o ShFx("stage", "dpkg-deb -R rustdesk.deb tmpdeb", {tmpdeb}, {})
    \o ShFx("stage", "mkdir -p tmpdeb/usr/share/rustdesk/files/systemd/", {tmpdeb}, {})
    \o ShFx("stage", "mkdir -p tmpdeb/usr/share/icons/hicolor/256x256/apps/", {tmpdeb}, {})
    \o ShFx("stage", "mkdir -p tmpdeb/usr/share/icons/hicolor/scalable/apps/", {tmpdeb}, {})
    \o Sh("stage", "cp res/rustdesk.service tmpdeb/usr/share/rustdesk/files/systemd/")
    \o Sh("stage", "cp res/128x128@2x.png tmpdeb/usr/share/icons/hicolor/256x256/apps/rustdesk.png")
    \o Sh("stage", "cp res/scalable.svg tmpdeb/usr/share/icons/hicolor/scalable/apps/rustdesk.svg")
    \o Sh("stage", "cp res/rustdesk.desktop tmpdeb/usr/share/applications/rustdesk.desktop")
    \o Sh("stage", "cp res/rustdesk-link.desktop tmpdeb/usr/share/applications/rustdesk-link.desktop")
    \o OsSystem("stage", "mkdir -p tmpdeb/etc/rustdesk/")
    \o OsSystem("stage", "cp -a res/startwm.sh tmpdeb/etc/rustdesk/")
    \o OsSystem("stage", "mkdir -p tmpdeb/etc/X11/rustdesk/")
    \o OsSystem("stage", "cp res/xorg.conf tmpdeb/etc/X11/rustdesk/")
    \o ShFx("stage", "mkdir -p tmpdeb/DEBIAN", {tmpdeb}, {})
    \o generate_control_file
    \o OsSystem("stage", "cp -af res/DEBIAN/* tmpdeb/DEBIAN/.")
    \o OsSystem("stage", "mkdir -p tmpdeb/etc/pam.d/")
    \o OsSystem("stage", "cp res/pam.d/rustdesk.debian tmpdeb/etc/pam.d/rustdesk")
    \o (IF ~debug THEN Sh("strip", "strip tmpdeb/usr/bin/rustdesk") ELSE <<>>)
    \o ShFx("stage", "mkdir -p tmpdeb/usr/lib/rustdesk", {tmpdeb}, {})
    \o Sh("stage", "mv tmpdeb/usr/bin/rustdesk tmpdeb/usr/lib/rustdesk/")
    \o Sh("stage", "cp libsciter-gtk.so tmpdeb/usr/lib/rustdesk/")
    \o md5_file("usr/share/rustdesk/files/systemd/rustdesk.service")
    \o md5_file("etc/rustdesk/startwm.sh")
    \o md5_file("etc/X11/rustdesk/xorg.conf")
    \o md5_file("etc/pam.d/rustdesk")
    \o md5_file("usr/lib/rustdesk/libsciter-gtk.so")
    \o ShJoin("seq",
         <<ProcFx("package", "dpkg-deb -b tmpdeb rustdesk.deb", {rustdesk_deb}, {}),
           ProcFx("cleanup", "/bin/rm -rf tmpdeb/", {}, {tmpdeb})>>)
    \o Rename("finalize", "os.rename", rustdesk_deb, deb_name)
    \o ShFx("cleanup", "/bin/rm -rf tmpdeb/", {}, {tmpdeb})
    \o ShFx("cleanup", "/bin/rm -rf res/DEBIAN/control", {}, {control_file})
    \o OutputLocation(deb_name))

\* lines 680-777
main_else ==
    IF args.flutter
    THEN IF osx THEN build_flutter_dmg ELSE build_flutter_deb
    ELSE In(IF osx THEN "dmg" ELSE "deb",
            IF ~skip_cargo THEN Sh("compile", "cargo bundle --features {features}")
            ELSE <<>>)
         \o (IF osx THEN main_dmg ELSE main_deb)

(***************************************************************************)
(* main() (lines 546-588) and external_resources (lines 272-291).          *)
(***************************************************************************)
external_resources ==
    In("resources", Call("external_resources", "external_resources_278"))

\* lines 278-291, reached with a non-empty features
external_resources_278 == In("resources",
    Call("prepare_res_dir", "")
    \o Call("download_extract_features", "")
    \o (IF args.flutter
        THEN Py("stage", "os.makedirs(flutter_build_dir_2, exist_ok=True)")
             \o Py("stage", "shutil.copy2 / shutil.copytree into flutter_build_dir_2")
        ELSE <<>>))

codegen_accepted == FALSE

\* 'if not flutter: if codegen:' of lines 574-575
codegen_without_flutter == ~args.flutter /\ args.codegen

\* lines 571-588, and the head of the dispatch of lines 589-777
main_571 ==
    IF codegen_without_flutter
    THEN Printed("Error: --codegen is invalid without --flutter.") \o Exit
    ELSE (IF ~args.flutter THEN Sh("prep", "python3 res/inline-sciter.py")
          ELSE <<>>)
         \o (IF args.package # ""
             THEN build_deb_from_folder
             ELSE external_resources
                  \o (IF windows THEN main_windows
                      ELSE Probe(usr_bin_pacman, "main_arch", "main_649")))

main ==
    Probe(exe_path, "unlink", "pass")
    \o Probe(usr_bin_pacman, "git_checkout", "pass")
    \o Py("prep", "get_version()")
    \o main_571

\* The block a test or a call continues with.
Block(label) ==
    CASE label = "pass" -> <<>>
      [] label = "unlink" ->
            PyFx("prep", "os.unlink(exe_path)", {}, {exe_path})
      [] label = "git_checkout" -> Sh("prep", "git checkout src/ui/common.tis")
      [] label = "external_resources_278" -> external_resources_278
      [] label = "set_flutter_bridge_cpath" -> set_flutter_bridge_cpath
      [] label = "main_arch" -> main_arch
      [] label = "main_649" -> Probe(usr_bin_yum, "main_rhel", "main_665")
      [] label = "main_rhel" -> main_rhel
      [] label = "main_665" -> Probe(usr_bin_zypper, "main_suse", "main_else")
      [] label = "main_suse" -> main_suse
      [] label = "main_else" -> main_else
      [] label = "cargo_build_failed" ->
            Printed("cargo build failed, please check rust source code.") \o Exit
      [] label = "replace_531" ->
            Rename("move", "os.replace", portable_packer, rustdesk_portable_exe)
      [] label = "rename_534" ->
            Rename("move", "os.rename", portable_packer, rustdesk_portable_exe)
      [] label = "replace_539" ->
            Rename("finalize", "os.replace", rustdesk_portable_exe, install_name)
      [] label = "rename_541" ->
            Rename("finalize", "os.rename", rustdesk_portable_exe, install_name)
      [] label = "replace_619" ->
            Rename("finalize", "os.replace", portable_packer, sciter_install_name)
      [] label = "rename_621" ->
            Rename("finalize", "os.rename", portable_packer, sciter_install_name)
      [] label = "signtool" ->
            Sh("sign", "signtool sign /a /v /p {pa} target/{build_type}/rustdesk.exe")
      [] label = "codesign_app" ->
            ShJoin("seq",
               <<Proc("sign", "codesign RustDesk.app/Contents/MacOS/*"),
                 Proc("sign", "codesign RustDesk.app")>>)
      [] label = "codesign_dmg" ->
            ShJoin("seq",
               <<Proc("sign", "codesign ./rustdesk-{version}.dmg"),
                 Proc("sign", "rcodesign notary-submit --staple rustdesk-{version}.dmg")>>)
      [] label = "not_signed" -> Printed("Not signed")

(***************************************************************************)
(* The steps of a run.                                                     *)
(***************************************************************************)
Running == status = "running" /\ prog # <<>>

Expand(op, label) ==
    IF op.s = "main" THEN Block(label) ELSE In(op.s, Block(label))

\* An entry of trace: a process (x = "proc") with its exit status, or a
\* library call (x = "py") with rc = 1 when it raised; mk holds the paths
\* it created.
Entry(x, op, p, rc, made) ==
    [x |-> x, role |-> p.role, s |-> op.s, c |-> p.c, rc |-> rc, mk |-> made]

\* Whether process i of a command line is started: after '&&' only when
\* everything before it exited 0.
Started(sh, rcs, i) == sh # "and" \/ \A j \in 1..(i - 1) : rcs[j] = 0

\* The exit status of a command line as the shell reports it.
ShellStatus(sh, rcs) ==
    CASE sh = "or_true" -> 0
      [] sh = "and" -> IF \E j \in 1..Len(rcs) : rcs[j] # 0 THEN 1 ELSE 0
      [] OTHER -> rcs[Len(rcs)]

\* The exit statuses the processes of a command line may have.
ExitCodes(op) ==
    {rcs \in [1..Len(op.procs) -> {0, 1}] :
        \A i \in 1..Len(op.procs) : ~Started(op.sh, rcs, i) => rcs[i] = 0}

RECURSIVE run_procs(_, _, _, _)
run_procs(op, rcs, i, acc) ==
    IF i > Len(op.procs) \/ ~Started(op.sh, rcs, i) THEN acc
    ELSE LET p == op.procs[i]
             ok == rcs[i] = 0
         IN run_procs(op, rcs, i + 1,
              [log |-> Append(acc.log,
                              Entry("proc", op, p, rcs[i],
                                    IF ok THEN p.mk ELSE {})),
               present |-> IF ok THEN (acc.present \ p.rm) \cup p.mk
                           ELSE acc.present,
               absent |-> IF ok THEN (acc.absent \ p.mk) \cup p.rm
                          ELSE acc.absent])

\* os.system(cmd) and what the caller does with its result.
os_system_then(checked) ==
    LET op == Head(prog) IN
    \E rcs \in ExitCodes(op) :
        LET r == run_procs(op, rcs, 1,
                    [log |-> trace, present |-> present, absent |-> absent])
            err == ShellStatus(op.sh, rcs)
        IN  /\ trace' = r.log
            /\ present' = r.present
            /\ absent' = r.absent
            /\ IF checked /\ err # 0
               THEN status' = "sys.exit(-1)" /\ prog' = <<>>
               ELSE status' = status /\ prog' = Tail(prog)

\* system2(cmd), lines 36-40.
system2 ==
    /\ Running
    /\ Head(prog).k = "system2"
    /\ os_system_then(TRUE)
    /\ UNCHANGED <<host, fetch_vars, args, version, res_files>>

\* A bare os.system(cmd), lines 753-761.
os_system ==
    /\ Running
    /\ Head(prog).k = "os_system"
    /\ os_system_then(FALSE)
    /\ UNCHANGED <<host, fetch_vars, args, version, res_files>>

\* subprocess.check_output in set_flutter_bridge_cpath, lines 330-337.
check_output ==
    /\ Running
    /\ Head(prog).k = "check_output"
    /\ os_system_then(TRUE)
    /\ UNCHANGED <<host, fetch_vars, args, version, res_files>>

\* A library call: it returns, with its effect, or raises.
py_call ==
    /\ Running
    /\ Head(prog).k = "py"
    /\ LET op == Head(prog)
           p == op.procs[1]
       IN \E ok \in BOOLEAN :
            IF ok
            THEN /\ trace' = Append(trace, Entry("py", op, p, 0, p.mk))
                 /\ present' = (present \ p.rm) \cup p.mk
                 /\ absent' = (absent \ p.mk) \cup p.rm
                 /\ prog' = Tail(prog)
                 /\ status' = status
            ELSE /\ trace' = Append(trace, Entry("py", op, p, 1, {}))
                 /\ prog' = <<>>
                 /\ status' = "raised"
                 /\ UNCHANGED <<present, absent>>
    /\ UNCHANGED <<host, fetch_vars, args, version, res_files>>

\* print(...): 'Not signed', the error of line 576, 'output location: ...'.
print ==
    /\ Running
    /\ Head(prog).k = "print"
    /\ LET op == Head(prog)
       IN trace' = Append(trace, Entry("py", op, op.procs[1], 0, {op.dst} \ {<<>>}))
    /\ prog' = Tail(prog)
    /\ UNCHANGED <<host, fetch_vars, args, version, status, present, absent,
                   res_files>>

\* os.path.exists, os.path.isfile, a test of os.environ: the answer is
\* what is known of the path, or either answer when nothing is known yet.
probe ==
    /\ Running
    /\ Head(prog).k = "probe"
    /\ LET op == Head(prog)
       IN \E found \in BOOLEAN :
            /\ op.src \in present => found
            /\ op.src \in absent => ~found
            /\ present' = IF found THEN present \cup {op.src} ELSE present
            /\ absent' = IF found THEN absent ELSE absent \cup {op.src}
            /\ prog' = Expand(op, IF found THEN op.t ELSE op.e) \o Tail(prog)
    /\ UNCHANGED <<host, fetch_vars, args, version, trace, status, res_files>>

\* os.rename(src, dst) and os.replace(src, dst): src must exist; on
\* Windows os.rename raises FileExistsError when dst exists.
rename ==
    /\ Running
    /\ Head(prog).k = "rename"
    /\ LET op == Head(prog)
           p == op.procs[1]
       IN \E src_found \in BOOLEAN, dst_found \in BOOLEAN :
            /\ op.src \in present => src_found
            /\ op.src \in absent => ~src_found
            /\ op.dst \in present => dst_found
            /\ op.dst \in absent => ~dst_found
            /\ IF src_found /\ ~(windows /\ p.c = "os.rename" /\ dst_found)
               THEN /\ trace' = Append(trace, Entry("py", op, p, 0, {op.dst}))
                    /\ present' = (present \ {op.src}) \cup {op.dst}
                    /\ absent' = (absent \ {op.dst}) \cup {op.src}
                    /\ prog' = Tail(prog)
                    /\ status' = status
               ELSE /\ trace' = Append(trace, Entry("py", op, p, 1, {}))
                    /\ prog' = <<>>
                    /\ status' = "raised"
                    /\ UNCHANGED <<present, absent>>
    /\ UNCHANGED <<host, fetch_vars, args, version, res_files>>

\* sys.exit(-1) of line 577 and exit(-1) of line 516.
exit ==
    /\ Running
    /\ Head(prog).k = "exit"
    /\ status' = "sys.exit(-1)"
    /\ prog' = <<>>
    /\ UNCHANGED <<host, fetch_vars, args, version, trace, present, absent,
                   res_files>>

\* The command lines a run may be given for -f/--feature.
PipelineRequests ==
    {StrReq(""), ListReq(<<"PrivacyMode">>), ListReq(<<"ALL">>)}

\* What the URLs of PrivacyMode may serve: manifests with a line for the
\* archive (right or wrong digest), without one, with a short line, and
\* with two lines.
README == <<"R", "E", "A", "D", "M", "E">>
GoodLine == <<"d1", "TempTopMostWindow_x64.zip">>
BadLine == <<"d2", "TempTopMostWindow_x64.zip">>
OtherLine == <<"d1", "checksum_md5">>
PipelineNets ==
    {[manifest |-> m, md5 |-> "d1", namelist |-> <<WindowInjection_dll, README>>] :
        m \in {<<>>, <<GoodLine>>, <<BadLine>>, <<OtherLine>>, <<(<<"d1">>)>>,
               <<OtherLine, GoodLine>>, <<GoodLine, BadLine>>}}

\* external_resources, lines 273-277: the features are resolved; an
\* empty result returns; the keys of a non-empty one are printed.
external_resources_273 ==
    /\ Running
    /\ Head(prog).k = "external_resources"
    /\ \E f \in PipelineRequests :
        LET op == Head(prog)
            r == parse_rc_features(f)
            p == Proc("resolve", "parse_rc_features(args.feature)")
        IN  /\ feature' = f
            /\ resolved' = r
            /\ IF r.t = "raise" \/ (r.t = "list" /\ r.elts # <<>>)
               THEN /\ trace' = Append(trace, Entry("py", op, p, 1, {}))
                    /\ status' = "raised"
                    /\ prog' = <<>>
               ELSE /\ trace' = Append(trace, Entry("py", op, p, 0, {}))
                    /\ status' = status
                    /\ prog' = (IF r.keys = <<>> THEN <<>>
                                ELSE Expand(op, op.t)) \o Tail(prog)
    /\ UNCHANGED <<host, features, net, fetched, args, version, present,
                   absent, res_files>>

\* What the staging directory holds when nothing is removed first.
rmtree_skipped(files) == files

\* shutil.rmtree(res_dir) and os.makedirs(res_dir): the directory is empty.
rmtree_makedirs(files) == {}

\* The calls of lines 278-282 by what is found at res_dir.
res_dir_calls(kind) ==
    CASE kind = "dir" -> "shutil.rmtree(res_dir); os.makedirs(res_dir)"
      [] kind = "absent" -> "os.makedirs(res_dir)"
      [] OTHER -> "raise Exception('Find file res_dir, not a directory')"

\* external_resources, lines 278-282: res_dir is removed when it is a
\* directory, anything else there (a file, a link to something) raises,
\* and it is made again. Files under res_dir mean it is a directory.
prepare_res_dir ==
    /\ Running
    /\ Head(prog).k = "prepare_res_dir"
    /\ \E kind \in {"absent", "dir", "file", "link"} :
        LET op == Head(prog)
            p == Proc("fetch", res_dir_calls(kind))
        IN  /\ res_files # {} => kind = "dir"
            /\ res_dir \in present => kind # "absent"
            /\ res_dir \in absent => kind = "absent"
            /\ IF kind \in {"absent", "dir"}
               THEN /\ trace' = Append(trace, Entry("py", op, p, 0, {res_dir}))
                    /\ res_files' = (IF kind = "dir" THEN rmtree_makedirs(res_files)
                                     ELSE res_files)
                    /\ present' = present \cup {res_dir}
                    /\ absent' = absent \ {res_dir}
                    /\ prog' = Tail(prog)
                    /\ status' = status
               ELSE /\ trace' = Append(trace, Entry("py", op, p, 1, {}))
                    /\ status' = "raised"
                    /\ prog' = <<>>
                    /\ UNCHANGED <<res_files, present, absent>>
    /\ UNCHANGED <<host, fetch_vars, args, version>>

\* external_resources, line 283: download_extract_features(features, res_dir).
call_download_extract_features ==
    /\ Running
    /\ Head(prog).k = "download_extract_features"
    /\ \E n \in PipelineNets :
        LET op == Head(prog)
            p == Proc("fetch", "download_extract_features(features, res_dir)")
            items == items_of(resolved)
            r == download_extract_features(items, n)
        IN  /\ net' = n
            /\ features' = items
            /\ fetched' = r
            /\ res_files' = res_files
                              \cup {r.extracted[i][2] : i \in 1..Len(r.extracted)}
            /\ IF r.raised # "none"
               THEN /\ trace' = Append(trace, Entry("py", op, p, 1, {}))
                    /\ status' = "raised"
                    /\ prog' = <<>>
               ELSE /\ trace' = Append(trace, Entry("py", op, p, 0, {}))
                    /\ status' = status
                    /\ prog' = Tail(prog)
    /\ UNCHANGED <<host, feature, resolved, args, version, present, absent>>

\* main() returns: the process exits with status 0.
return ==
    /\ status = "running"
    /\ prog = <<>>
    /\ status' = "returned"
    /\ UNCHANGED <<host, fetch_vars, args, version, prog, trace, present,
                   absent, res_files>>

\* The versions Cargo.toml may give.
Versions == {"1.2.3", "1.4.0"}

\* The command line: --skip-portable-pack exists on Windows only (line 151).
ArgSets ==
    {a \in [flutter : BOOLEAN, debug : BOOLEAN, skip_cargo : BOOLEAN,
            codegen : BOOLEAN, package : {"", "prebuilt"},
            skip_portable_pack : BOOLEAN] :
        ~windows => ~a.skip_portable_pack}

Init ==
    /\ host \in Hosts
    /\ args \in ArgSets
    /\ version \in Versions
    /\ feature = StrReq("")
    /\ resolved = NotCalled
    /\ features = <<>>
    /\ net = NoNet
    /\ fetched = NotFetched
    /\ prog = main
    /\ trace = <<>>
    /\ status = "running"
    /\ present = {}
    /\ absent = {}
    /\ res_files = {}

Next ==
    \/ system2
    \/ os_system
    \/ check_output
    \/ py_call
    \/ print
    \/ probe
    \/ rename
    \/ exit
    \/ external_resources_273
    \/ prepare_res_dir
    \/ call_download_extract_features
    \/ return

Spec == Init /\ [][Next]_vars

\* The pipeline's variables while a function is checked on its own.
IdleRun ==
    /\ args = [flutter |-> FALSE, debug |-> FALSE, skip_cargo |-> FALSE,
               codegen |-> FALSE, package |-> "", skip_portable_pack |-> FALSE]
    /\ version = ""
    /\ prog = <<>>
    /\ trace = <<>>
    /\ status = "idle"
    /\ present = {}
    /\ absent = {}
    /\ res_files = {}

(***************************************************************************)
(* SpecStage: external_resources on its own, started with whatever an      *)
(* earlier run or anything else left under the staging directory.          *)
(***************************************************************************)
\* What may lie under res_dir when external_resources is called.
LeftOvers == SUBSET {WindowInjection_dll, README}

InitStage ==
    /\ host \in Hosts
    /\ \E fl \in BOOLEAN :
          args = [flutter |-> fl, debug |-> FALSE, skip_cargo |-> FALSE,
                  codegen |-> FALSE, package |-> "",
                  skip_portable_pack |-> FALSE]
    /\ version \in Versions
    /\ feature = StrReq("")
    /\ resolved = NotCalled
    /\ features = <<>>
    /\ net = NoNet
    /\ fetched = NotFetched
    /\ prog = external_resources
    /\ trace = <<>>
    /\ status = "running"
    /\ res_files \in LeftOvers
    /\ present = (IF res_files # {} THEN {res_dir} ELSE {})
    /\ absent = {}

NextStage ==
    \/ external_resources_273
    \/ prepare_res_dir
    \/ call_download_extract_features
    \/ py_call
    \/ return

SpecStage == InitStage /\ [][NextStage]_vars

(***************************************************************************)
(* SpecFetch: download_extract_features applied to one feature with every  *)
(* include and exclude list, manifest and digest of the bounds.            *)
(***************************************************************************)
InitFetch ==
    /\ host = "Windows"
    /\ feature = ListReq(<<>>)
    /\ resolved = NotCalled
    /\ \E inc \in PatternLists \cup {Absent}, exc \in PatternLists \cup {Absent} :
          features = <<[feat |-> "PrivacyMode", info |-> feat_info_with(inc, exc)]>>
    /\ \E m \in Manifests, d \in Digests :
          net = [manifest |-> m, md5 |-> d, namelist |-> Members]
    /\ fetched = NotFetched
    /\ IdleRun

CallDownloadExtractFeatures ==
    /\ status = "idle"
    /\ fetched = NotFetched
    /\ fetched' = download_extract_features(features, net)
    /\ UNCHANGED <<host, feature, resolved, features, net, run_vars>>

NextFetch == CallDownloadExtractFeatures

SpecFetch == InitFetch /\ [][NextFetch]_vars

(***************************************************************************)
(* SpecResolve: parse_rc_features applied to every request and host.       *)
(***************************************************************************)
InitResolve ==
    /\ host \in Hosts
    /\ feature \in Requests
    /\ resolved = NotCalled
    /\ features = <<>>
    /\ net = NoNet
    /\ fetched = NotFetched
    /\ IdleRun

CallParseRcFeatures ==
    /\ status = "idle"
    /\ resolved = NotCalled
    /\ resolved' = parse_rc_features(feature)
    /\ UNCHANGED <<host, feature, features, net, fetched, run_vars>>

NextResolve == CallParseRcFeatures

SpecResolve == InitResolve /\ [][NextResolve]_vars

(***************************************************************************)
(* Properties of parse_rc_features, checked under SpecResolve.             *)
(***************************************************************************)
\* The platform tag of the host, as the catalog's 'platform' lists spell it.
HostTag ==
    CASE host = "Windows" -> "windows"
      [] host \in {"Darwin", "macOS"} -> "osx"
      [] OTHER -> "linux"

Range(q) == {q[i] : i \in 1..Len(q)}

\* The names of the features parse_rc_features returned.
ResolvedNames == Range(resolved.keys) \cup Range(resolved.elts)

CatalogNames == DOMAIN available_features

CompatibleNames ==
    {n \in CatalogNames : HostTag \in available_features[n].platform}

\* Whether the request is the sentinel or holds it, in any letter case.
HasSentinel(f) ==
    \/ f.t = "str" /\ f.s \in {"all", "ALL", "All"}
    \/ f.t = "list" /\ \E i \in 1..Len(f.l) : f.l[i] \in {"all", "ALL", "All"}

\* C1: whatever is requested on whatever host, every feature that
\* parse_rc_features returns is in the catalog and lists the host's platform
\* tag in its 'platform'.
C1_ResolvedArePlatformCompatible ==
    \A n \in ResolvedNames :
        n \in CatalogNames /\ HostTag \in available_features[n].platform

\* A feature was resolved on its platform, and elsewhere a request naming
\* it resolved to nothing.
C1_Witness ==
    /\ resolved.t = "dict"
    /\ feature.t = "list"
    /\ "PrivacyMode" \in Range(feature.l)
    /\ \/ host = "Windows" /\ resolved.keys = <<"PrivacyMode">>
       \/ host = "Linux" /\ resolved.keys = <<>>

\* C2: when the request is the sentinel or a list holding it, in any letter
\* case and at any position, the names returned are exactly the catalog
\* features that list the host's platform tag.
C2_SentinelGivesFilteredCatalog ==
    (resolved # NotCalled /\ HasSentinel(feature)) =>
        /\ resolved.t = "list"
        /\ ResolvedNames = CompatibleNames

\* The sentinel in lower case came second in a list, after an unrecognized
\* name, on the host that has a compatible feature.
C2_Witness ==
    /\ host = "Windows"
    /\ feature = ListReq(<<"Foo", "all">>)
    /\ resolved.t = "list"
    /\ resolved.elts = <<"PrivacyMode">>

\* C3: for a list without the sentinel every name is handled on its own: a
\* catalog name compatible with the host is in the result, an incompatible
\* one is left out with no warning, a name that is not in the catalog is
\* warned about, and the call returns a dict having gone through the whole
\* list.
C3_NamesHandledIndependently ==
    (resolved # NotCalled /\ feature.t = "list" /\ ~HasSentinel(feature)) =>
        /\ resolved.t = "dict"
        /\ Range(resolved.keys) = Range(feature.l) \cap CompatibleNames
        /\ resolved.printed =
              SelectSeq(feature.l, LAMBDA n : n \notin CatalogNames)

\* A catalog name listed after an unrecognized one was still resolved.
C3_Witness ==
    /\ host = "Windows"
    /\ feature = ListReq(<<"Foo", "PrivacyMode">>)
    /\ resolved.t = "dict"
    /\ resolved.keys = <<"PrivacyMode">>
    /\ resolved.printed = <<"Foo">>

(***************************************************************************)
(* Properties of download_extract_features, checked under SpecFetch.       *)
(***************************************************************************)
\* The include and exclude lists of the feature being fetched.
ListOf(info, key) == IF key \in DOMAIN info THEN info[key] ELSE <<>>

MatchesAny(pats, f) == \E i \in 1..Len(pats) : re_match(pats[i], f)

\* The members the filter rule lets through.
Eligible(info, namelist) ==
    {f \in Range(namelist) :
        /\ ~MatchesAny(ListOf(info, "exclude"), f)
        /\ \/ ListOf(info, "include") = <<>>
           \/ MatchesAny(ListOf(info, "include"), f)}

ExtractedOf(feat) ==
    {fetched.extracted[i][2] :
        i \in {j \in 1..Len(fetched.extracted) : fetched.extracted[j][1] = feat}}

\* C4: a member is extracted only if it matches no exclude pattern and the
\* include list is empty or one of its patterns matches; and once the
\* archive has been verified and the call returned, every such member has
\* been extracted. A member matching an include and an exclude pattern is
\* never extracted.
C4_ExtractedIffNotExcludedAndIncluded ==
    \A k \in 1..Len(features) :
        LET feat == features[k].feat
            info == features[k].info
        IN  /\ ExtractedOf(feat) \subseteq Eligible(info, net.namelist)
            /\ (fetched.raised = "none" /\ fetched.retrieved > 0) =>
                  ExtractedOf(feat) = Eligible(info, net.namelist)

\* An archive was verified and extracted under an include and an exclude
\* list that both match the member 'ld': 'lx' was extracted, 'ld' was not.
C4_Witness ==
    /\ fetched.raised = "none"
    /\ fetched.retrieved > 0
    /\ {"include", "exclude"} \subseteq DOMAIN features[1].info
    /\ features[1].info.include = <<(<<"l">>)>>
    /\ features[1].info.exclude = <<(<<"l", "d">>)>>
    /\ ExtractedOf("PrivacyMode") = {<<"l", "x">>}

(***************************************************************************)
(* Properties of the pipeline, checked under Spec.                         *)
(***************************************************************************)
\* The base name of a feature's archive URL.
ArchiveName(info) == info.zip_url[Len(info.zip_url)]

\* The manifest lines that name the archive of a feature.
LinesFor(info) ==
    {j \in 1..Len(net.manifest) :
        Len(net.manifest[j]) >= 2 /\ net.manifest[j][2] = ArchiveName(info)}

\* Whether the digest of manifest line j differs from the archive's MD5.
Mismatch(j) == net.manifest[j][1] # net.md5

FirstOf(S) == CHOOSE j \in S : \A i \in S : j <= i

Roles == {trace[i].role : i \in 1..Len(trace)}

\* C5: when the MD5 of the downloaded archive differs from the digest the
\* manifest publishes for it, the run ends with an uncaught exception and
\* runs nothing more, and that download puts no member into the staging
\* directory: nothing at all is staged when the first line naming the
\* archive carries the differing digest, and a download that fails the
\* comparison adds no member to those of the downloads verified before it.
C5_MismatchExtractsNothingAndFails ==
    \A k \in 1..Len(features) :
        LET feat == features[k].feat
            info == features[k].info
            named == LinesFor(info)
        IN  fetched # NotFetched =>
            /\ (\E j \in named : Mismatch(j)) =>
                  /\ fetched.raised # "none"
                  /\ status = "raised"
                  /\ prog = <<>>
            /\ (named # {} /\ Mismatch(FirstOf(named))) =>
                  /\ ExtractedOf(feat) = {}
                  /\ res_files = {}
            /\ fetched.raised = "download failed" =>
                  Len(fetched.extracted) =
                      (fetched.retrieved - 1)
                          * Cardinality(Eligible(info, net.namelist))

\* The manifest gave another digest than the archive's: the archive was
\* downloaded, nothing was staged and the run ended with the exception.
C5_Witness ==
    /\ net.manifest = <<BadLine>>
    /\ fetched.raised = "download failed"
    /\ fetched.retrieved = 1
    /\ res_dir \in present
    /\ res_files = {}
    /\ status = "raised"

\* C6: when the manifest of a resolved feature has no line naming the
\* feature's archive, the fetch is fatal: no compile, UI build or packaging
\* step runs afterwards, the run does not return normally, and nothing of
\* the feature is staged.
C6_NoManifestLineIsFatal ==
    \A k \in 1..Len(features) :
        (fetched # NotFetched /\ LinesFor(features[k].info) = {}) =>
            /\ Roles \cap {"compile", "ui_build", "package"} = {}
            /\ status # "returned"
            /\ ExtractedOf(features[k].feat) = {}

\* The name build_deb_from_folder gives its package.
PackageDebName ==
    <<"rustdesk-", version>>
        \o (IF args.debug THEN <<"-debug">> ELSE <<>>) \o <<".deb">>

\* C7: with --package given, on any host and with any package manager
\* found, build_deb_from_folder is the only strategy that runs: nothing is
\* compiled or generated, no feature is resolved or downloaded, no other
\* strategy runs a step, and a run that returns has produced
\* rustdesk-<version>.deb, or rustdesk-<version>-debug.deb in debug mode.
C7_PackageOverrideOnlyRepackages ==
    args.package # "" =>
        /\ \A i \in 1..Len(trace) :
              /\ trace[i].s \in {"main", "deb_from_folder"}
              /\ trace[i].role \notin
                    {"compile", "codegen", "ui_build", "resolve", "fetch", "sign"}
        /\ resolved = NotCalled
        /\ fetched = NotFetched
        /\ status = "returned" =>
              /\ \E i \in 1..Len(trace) :
                    /\ trace[i].role = "finalize"
                    /\ trace[i].s = "deb_from_folder"
                    /\ trace[i].mk = {PackageDebName}
              /\ PackageDebName \in present

\* A debug run with --package returned on a macOS host where pacman is
\* installed, having produced the .deb.
C7_Witness ==
    /\ args.package # ""
    /\ args.debug
    /\ host = "Darwin"
    /\ usr_bin_pacman \in present
    /\ status = "returned"
    /\ PackageDebName \in present
    /\ "package" \in Roles

\* C8: without --package a macOS host always gets the DMG strategy, even
\* when /usr/bin/pacman, /usr/bin/yum or /usr/bin/zypper exists: no step of
\* the Arch, RHEL or SUSE strategy runs there.
C8_MacOSAlwaysGetsDmg ==
    (host \in {"Darwin", "macOS"} /\ args.package = "") =>
        \A i \in 1..Len(trace) : trace[i].s \notin {"arch", "rhel", "suse"}

\* The part of an artifact's name that follows the version and '-debug'.
VariantSuffix(s) ==
    CASE s \in {"deb", "deb_from_folder"} -> ".deb"
      [] s = "dmg" -> ".dmg"
      [] s = "arch" -> "-manjaro-arch.pkg.tar.zst"
      [] s = "rhel" -> "-rhel.rpm"
      [] s = "suse" -> "-suse.rpm"
      [] s = "windows" -> IF args.flutter THEN "-install.exe"
                          ELSE "-sciter-install.exe"

ArtifactName(s) ==
    <<"rustdesk-", version>>
        \o (IF args.debug THEN <<"-debug">> ELSE <<>>) \o <<VariantSuffix(s)>>

\* C9: in every strategy the step that gives the artifact its final name
\* names it rustdesk-<version>[-debug]<variant suffix and extension>, with
\* '-debug' present exactly in debug mode: the name is a function of the
\* version, the debug flag and the strategy.
C9_ArtifactNameFromVersionDebugStrategy ==
    \A i \in 1..Len(trace) :
        (trace[i].role = "finalize" /\ trace[i].rc = 0) =>
            /\ trace[i].mk = {ArtifactName(trace[i].s)}
            /\ \A n \in trace[i].mk : ("-debug" \in Range(n)) <=> args.debug

\* A debug run of version 1.2.3 on generic Linux, without flutter, returned
\* having produced rustdesk-1.2.3-debug.deb.
C9_Witness ==
    /\ host = "Linux"
    /\ args.debug
    /\ ~args.flutter
    /\ args.package = ""
    /\ version = "1.2.3"
    /\ status = "returned"
    /\ \E i \in 1..Len(trace) :
          /\ trace[i].role = "finalize"
          /\ trace[i].s = "deb"
          /\ trace[i].mk = {<<"rustdesk-", "1.2.3", "-debug", ".deb">>}

\* C10: on the generic-Linux Debian path without flutter, as in every
\* strategy, an external process that exits non-zero ends the run at once
\* with a non-zero status: a failed process is the last thing the run did.
C10_FailedProcessEndsDebianRun ==
    (host = "Linux" /\ ~args.flutter /\ args.package = "") =>
        \A i \in 1..Len(trace) :
            (trace[i].x = "proc" /\ trace[i].s = "deb" /\ trace[i].rc # 0) =>
                /\ i = Len(trace)
                /\ status = "sys.exit(-1)"

\* C11: in every Debian packaging path the staging directory tmpdeb (under
\* flutter/ for build_flutter_deb and build_deb_from_folder) does not exist
\* when the run has ended, whether it returned or failed.
C11_NoTmpdebWhenRunEnds ==
    status # "running" =>
        /\ tmpdeb \notin present
        /\ flutter_tmpdeb \notin present

\* C12: with --skip-cargo no cargo build and no cargo bundle is run anywhere
\* in the run, on every host and in every strategy, with or without
\* --flutter.
C12_SkipCargoRunsNoCompiler ==
    args.skip_cargo => "compile" \notin Roles

\* Whether the notice 'Not signed' was printed.
NotSignedPrinted ==
    \E i \in 1..Len(trace) : trace[i].role = "print" /\ trace[i].c = "Not signed"

\* C13: in the Windows and macOS strategies, with and without flutter, in
\* debug and in release mode, a run that produced its artifact either ran
\* the signing step (a credential was given in P) or printed 'Not signed'.
C13_SignedOrNoticeGiven ==
    (/\ status = "returned"
     /\ args.package = ""
     /\ \E i \in 1..Len(trace) :
           trace[i].role = "finalize" /\ trace[i].s \in {"windows", "dmg"}) =>
        "sign" \in Roles \/ NotSignedPrinted

\* What main() runs before it looks at --codegen and --flutter.
PreludeCommands ==
    {"os.unlink(exe_path)", "git checkout src/ui/common.tis", "get_version()"}

CodegenError == "Error: --codegen is invalid without --flutter."

\* C14: with --codegen and without --flutter the run never returns
\* normally: it ends with a non-zero status, having resolved and downloaded
\* no feature and run no compiler, staging or packaging step; besides the
\* error message, only the first steps of main() have run.
C14_CodegenWithoutFlutterExitsEarly ==
    (args.codegen /\ ~args.flutter) =>
        /\ status \in {"running", "sys.exit(-1)", "raised"}
        /\ status = "running" => prog # <<>>
        /\ resolved = NotCalled
        /\ fetched = NotFetched
        /\ \A i \in 1..Len(trace) :
              /\ trace[i].s = "main"
              /\ trace[i].c \in PreludeCommands \cup {CodegenError}

\* The error was printed and the process exited with status -1.
C14_Witness ==
    /\ args.codegen
    /\ ~args.flutter
    /\ status = "sys.exit(-1)"
    /\ trace # <<>>
    /\ trace[Len(trace)].c = CodegenError
    /\ trace[Len(trace)].rc = 0

(***************************************************************************)
(* Properties of external_resources, checked under SpecStage.              *)
(***************************************************************************)
\* The members this run extracted into the staging directory.
ExtractedNow == {fetched.extracted[i][2] : i \in 1..Len(fetched.extracted)}

NotADirectory == "raise Exception('Find file res_dir, not a directory')"

\* The staging directory was removed if it was there and made again before
\* the download; it holds what this run extracted and nothing else; a
\* non-directory at its path ends the run before the download; an empty
\* resolved set ends external_resources at once.
StagingFresh ==
    /\ fetched # NotFetched =>
          /\ \E i \in 1..(Len(trace) - 1) :
                /\ trace[i].role = "fetch"
                /\ trace[i].rc = 0
                /\ trace[i].c \in {"shutil.rmtree(res_dir); os.makedirs(res_dir)",
                                   "os.makedirs(res_dir)"}
          /\ res_files = ExtractedNow
    /\ (\E i \in 1..Len(trace) : trace[i].c = NotADirectory) =>
          /\ status = "raised"
          /\ fetched = NotFetched
    /\ (resolved.t \in {"list", "dict"} /\ ResolvedNames = {}) =>
          /\ fetched = NotFetched
          /\ "fetch" \notin Roles
          /\ prog = <<>>

\* The call that resolves an empty set, and the one that finds a
\* non-directory, leave the staging path and what is under it as they were.
StagingUntouched ==
    /\ (/\ resolved = NotCalled
        /\ resolved'.t \in {"list", "dict"}
        /\ resolved'.keys = <<>>
        /\ resolved'.elts = <<>>) =>
          UNCHANGED <<res_files, present, absent>>
    /\ (/\ Len(trace') > Len(trace)
        /\ trace'[Len(trace')].c = NotADirectory) =>
          UNCHANGED <<res_files, present, absent>>

\* C15: when the resolved set is not empty the staging directory is removed
\* if present and made empty before the first download, so that after the
\* fetch it holds only what this run extracted, whatever lay there before;
\* a non-directory at the staging path ends the run before any download;
\* an empty resolved set makes external_resources return at once, leaving
\* the staging path untouched.
C15_StagingRecreatedOrUntouched ==
    []StagingFresh /\ [][StagingUntouched]_vars

\* On a host with a compatible feature the directory found at the staging
\* path was removed and made again, and after the fetch it holds exactly
\* the one member this run extracted.
C15_Witness ==
    /\ status = "returned"
    /\ fetched.raised = "none"
    /\ fetched.retrieved = 1
    /\ res_files = {WindowInjection_dll}
    /\ \E i \in 1..Len(trace) :
          trace[i].c = "shutil.rmtree(res_dir); os.makedirs(res_dir)"

(***************************************************************************)
(* Further properties of the pipeline, checked under Spec.                 *)
(***************************************************************************)
\* C16: a run in which the packaging tool (dpkg-deb -b, rpmbuild, makepkg,
\* create-dmg, the portable packer) exited non-zero never gives an artifact
\* its final name afterwards and never returns normally; in particular a
\* failed 'dpkg-deb -b' on the generic-Linux path without flutter is not
\* followed by the rename of rustdesk.deb to its final name.
C16_FailedPackagingLeavesNoArtifact ==
    \A i \in 1..Len(trace) :
        (trace[i].role = "package" /\ trace[i].rc # 0) =>
            /\ status # "returned"
            /\ \A j \in (i + 1)..Len(trace) :
                  ~(trace[j].role = "finalize" /\ trace[j].rc = 0)

\* C17: a sentinel request whose result is not empty is handled by
\* external_resources like the same features requested by name: the run
\* does not end in external_resources before the staging directory is
\* prepared and the features are downloaded.
C17_SentinelResultIsFetched ==
    (HasSentinel(feature) /\ resolved # NotCalled /\ ResolvedNames # {}) =>
        /\ resolved.t = "dict"
        /\ ~(status = "raised" /\ trace[Len(trace)].role = "resolve")

\* Whether entry i of the trace comes before entry j.
Before(i, j) == i < j

\* C18: without --package the steps run in the total order configuration,
\* feature resolution, resource fetch, compile, stage, package, finalize:
\* no compiler starts before external_resources is over, nothing is copied
\* into a build or staging tree before the compile step, and the rename of
\* the final artifact is the last step that changes the file system.
C18_TotalOrderRenameLast ==
    args.package = "" =>
        \A i \in 1..Len(trace), j \in 1..Len(trace) :
            Before(i, j) =>
                /\ ~(trace[i].role = "compile" /\ trace[j].s = "resources")
                /\ ~(trace[i].role = "stage" /\ trace[j].role = "compile")
                /\ (trace[i].role = "finalize" /\ trace[i].rc = 0) =>
                      trace[j].role \in {"print", "chdir"}

\* The place of a step in the order of the stages; 0 for the steps the
\* order does not speak of (preparation, strip, signing, cleanup, prints).
Rank(e) ==
    CASE e.s = "resources" -> 1
      [] e.role \in {"codegen", "compile"} -> 2
      [] e.role = "ui_build" -> 3
      [] e.role = "stage" -> 4
      [] e.role = "package" -> 5
      [] e.role = "finalize" -> 6
      [] OTHER -> 0

\* The steps of the trace that belong to a stage, in the order they ran.
Staged == SelectSeq(trace, LAMBDA e : Rank(e) > 0)

\* C18, amended: without --package the steps of feature resolution and
\* fetch (all of external_resources, its copies into the flutter build
\* tree included), compile, UI build, strategy staging, packaging and
\* finalize never run out of that order; cleanup and signing may follow
\* the rename of the final artifact.
C18_StagesInOrder ==
    args.package = "" =>
        LET staged == Staged
        IN  \A k \in 1..(Len(staged) - 1) :
                Rank(staged[k]) <= Rank(staged[k + 1])

\* A run on Windows returned having fetched a feature, compiled, staged,
\* packaged and given the artifact its name.
C18_Witness ==
    /\ args.package = ""
    /\ status = "returned"
    /\ fetched.raised = "none"
    /\ fetched.retrieved = 1
    /\ {"fetch", "compile", "stage", "package", "finalize"} \subseteq Roles

\* C19: in the Windows flutter strategy the move to
\* rustdesk-<version><type_name>-install.exe overwrites (os.replace) exactly
\* when a file exists at that name, in debug and in release mode, so the
\* finalize step never fails because the destination exists.
C19_InstallerMoveNeverFailsOnExisting ==
    (host = "Windows" /\ args.flutter /\ args.package = "") =>
        \A i \in 1..Len(trace) :
            (trace[i].role = "finalize" /\ trace[i].s = "windows") =>
                trace[i].rc = 0

====
